---- MODULE Spec2Model ----
(***************************************************************************)
(* Model of homeassistant/components/voip/voip.py:                         *)
(* PipelineRtpDatagramProtocol, the per-call audio pipeline controller.    *)
(*                                                                         *)
(* One protocol instance (one call session) is modelled at a time; the     *)
(* action Construct models the construction of the instance for the next   *)
(* call.  The asyncio event loop is single threaded: on_chunk and every    *)
(* stretch of a coroutine between two suspension points is one step.       *)
(* Time is a discrete tick; the two timeouts are constructor parameters.   *)
(*                                                                         *)
(* Spec is the cycle task of one call after another.  SpecScenario and     *)
(* SpecLookback are scripted calls, SpecSend adds the detached _send_media *)
(* tasks and the loss of the transport, SpecCancel the cancellation of the *)
(* cycle task from outside.  SpecAnnouncer is the other protocol of the    *)
(* file, NotConfiguredRtpDatagramProtocol.                                 *)
(***************************************************************************)
EXTENDS Integers, Sequences, FiniteSets, TLC

\* ---- bounds of the model ------------------------------------------------
MaxChunks == 3            \* chunks delivered by the transport, over all calls
MaxSessions == 2          \* protocol instances constructed
AudioTimeoutTicks == 1    \* the audio_timeout argument, in ticks
PipelineTimeoutTicks == 2 \* the pipeline_timeout argument, in ticks
MaxSends == 1             \* TTS_END events with data, each with its _send_media task
SendChunks == 2           \* chunks of the call with synthesized audio
MaxNcChunks == 3          \* chunks delivered to the not-configured protocol
LookbackPreSpeech == 102  \* pre-speech chunks of the long call
LookbackBacklog == 1      \* chunks waiting in the queue during the long call
ScenarioPreSpeech == 10   \* pre-speech chunks of the scripted call
ScenarioCommand == 2      \* chunks of the scripted call with the command in progress

\* ---- program constants --------------------------------------------------
BUFFERED_CHUNKS_BEFORE_SPEECH == 100
LOOP_DELAY == 2           \* seconds, one tick each

None == "None"

\* What the segmenter makes of a chunk (the chunk's audio content):
\*   "quiet"  - no command starts or ends on it
\*   "speech" - outside a command it makes in_command true
\*   "end"    - inside a command it makes process() return False
\*   "empty"  - zero bytes: falsy in `while chunk`
ChunkKinds == {"quiet", "speech", "end", "empty"}
ConversationIds == {"c1", "c2"}
\* pipeline events: the type, whether event.data is set, and the conversation
\* id an INTENT_END carries
Events ==
  {[type |-> "INTENT_END", has_data |-> TRUE, cid |-> c, media |-> None] :
     c \in ConversationIds}
    \cup {[type |-> "RUN_END", has_data |-> TRUE, cid |-> None, media |-> None],
          [type |-> "INTENT_END", has_data |-> FALSE, cid |-> None, media |-> None],
          [type |-> "TTS_END", has_data |-> FALSE, cid |-> None, media |-> None]}
\* the media ids a TTS_END event can carry, and the TTS_END events with data
MediaIds == {"m1", "m2"}
MediaEvents ==
  {[type |-> "TTS_END", has_data |-> TRUE, cid |-> None, media |-> m] : m \in MediaIds}

VARIABLES
  \* constructor parameters (voip.py:82-85)
  pipeline_timeout, audio_timeout, listening_tone_enabled, processing_tone_enabled,
  \* instance fields (voip.py:100-104)
  audio_queue, conversation_id, pipeline_task, session_id,
  \* the cycle task: position, locals of _run_pipeline, the stt_stream generator
  pc, in_command, chunk_buffer, gen, replay_idx, abandoned,
  \* collaborators: transport.disconnect(), the pipeline's conversation_id argument,
  \* detached send tasks
  disconnect_requested, passed_conversation_id, send_tasks, transport,
  \* clocks (ticks): since the current queue.get() began, since the pipeline
  \* timeout was entered, since _wait_for_speech was entered
  t_audio, t_pipe, t_wait,
  \* bookkeeping for the properties
  nextId, sessions, active, outcome, cycle_first, dequeued, streamed, last_intent,
  processed, tts_events,
  \* NotConfiguredRtpDatagramProtocol: fields (voip.py:338-341), the position
  \* of its _play_message task, the sleep clock, bookkeeping
  nc_transport, nc_audio_bytes, nc_audio_task, nc_pc, nc_t,
  nc_chunks, nc_spawned, nc_active

config == <<pipeline_timeout, audio_timeout, listening_tone_enabled, processing_tone_enabled>>
fields == <<audio_queue, conversation_id, pipeline_task, session_id>>
task == <<pc, in_command, chunk_buffer, gen, replay_idx, abandoned>>
collab == <<disconnect_requested, passed_conversation_id, send_tasks, transport>>
clocks == <<t_audio, t_pipe, t_wait>>
book == <<nextId, sessions, active, outcome, cycle_first, dequeued, streamed, last_intent,
          processed, tts_events>>
announcer == <<nc_transport, nc_audio_bytes, nc_audio_task, nc_pc, nc_t,
               nc_chunks, nc_spawned, nc_active>>
session == <<config, fields, task, collab, clocks, book>>
vars == <<config, fields, task, collab, clocks, book, announcer>>

\* ---- helpers ------------------------------------------------------------

Min(a, b) == IF a < b THEN a ELSE b

\* `while chunk:` - an empty bytes object is falsy
Truthy(c) == c.kind # "empty"

\* VoiceCommandSegmenter.process(chunk): the new in_command flag and the
\* returned value (False: the command has just ended on this chunk)
SegmenterProcess(inCmd, c) ==
  IF inCmd
    THEN IF c.kind = "end" THEN [in_command |-> FALSE, result |-> FALSE]
                            ELSE [in_command |-> TRUE, result |-> TRUE]
    ELSE [in_command |-> (c.kind = "speech"), result |-> TRUE]

\* faulty variant: a plain list, nothing falls out
DequeAppendUnbounded(buf, c) == Append(buf, c)

\* deque(maxlen=...).append: the oldest element falls out when full
DequeAppend(buf, c) ==
  IF Len(buf) >= BUFFERED_CHUNKS_BEFORE_SPEECH
    THEN Append(Tail(buf), c)
    ELSE Append(buf, c)

\* faulty variant: the queue is left as it is
KeepAudioQueue(q) == q

\* _clear_audio_queue
ClearAudioQueue(q) == <<>>

\* faulty variant: on_chunk spawns a task for every chunk
AlwaysSpawn(t) == TRUE

\* on_chunk: `if self._pipeline_task is None`
ShouldSpawn(t) == t = None

\* faulty variant: INTENT_END is ignored
ConversationIdNotCaptured(old, type, has_data, cid) == old

\* _event_callback: the conversation id stored after an event
CapturedConversationId(old, type, has_data, cid) ==
  IF has_data /\ type = "INTENT_END" THEN cid ELSE old

\* faulty variant: TTS_END is ignored
NeverSpawnsSendTask(type, has_data) == FALSE

\* _event_callback: whether the event spawns a detached _send_media task
SpawnsSendTask(type, has_data) == has_data /\ type = "TTS_END"

\* faulty variant: the handler clears the session id but requests no disconnect
HandleTimeoutErrorNoDisconnect(sid, disc) ==
  [session_id |-> None, disconnect_requested |-> disc]

\* faulty variant: the handler requests the disconnect but keeps the session id
HandleTimeoutErrorKeepsSession(sid, disc) ==
  [session_id |-> sid, disconnect_requested |-> TRUE]

\* the body of `except asyncio.TimeoutError` in _run_pipeline and in stt_stream:
\* self._session_id = None; self.disconnect()
HandleTimeoutError(sid, disc) == [session_id |-> None, disconnect_requested |-> TRUE]

\* faulty variant: a bare except, every failure is handled as a hang-up
CatchesEverything(exc) == TRUE

\* `except asyncio.TimeoutError:` of _run_pipeline: the exceptions it catches
CatchesTimeout(exc) == exc = "TimeoutError"

\* session id and disconnect request once exc has left the try block of
\* _run_pipeline: handled when caught, left alone when it propagates
AfterRaise(exc, sid, disc) ==
  IF CatchesTimeout(exc)
    THEN HandleTimeoutError(sid, disc)
    ELSE [session_id |-> sid, disconnect_requested |-> disc]

\* faulty variant: on_chunk does not clear the queue before it spawns
OnChunkQueueNoClear(q, spawn, c) == Append(q, c)

\* on_chunk: the queue after the call
OnChunkQueue(q, spawn, c) == Append(IF spawn THEN ClearAudioQueue(q) ELSE q, c)

\* faulty variant: the buffered chunks are skipped
ReplaySkipped(buf, idx) == FALSE

\* _segment_audio: `for buffered_chunk in chunk_buffer: yield buffered_chunk`
\* comes before the first queue.get()
ReplayPending(buf, idx) == idx <= Len(buf)

\* faulty variant: the timeout is entered before _wait_for_speech
DeadlineCoversWait(p) == p \in {"wait_get", "pipeline"}

\* the scope of `async with async_timeout.timeout(self.pipeline_timeout)`:
\* the call of async_pipeline_from_audio_stream only
DeadlineCovers(p) == p = "pipeline"

\* the task is suspended in `await self._audio_queue.get()` under the audio timeout
AtGet == pc = "wait_get" \/ (pc = "pipeline" /\ gen = "get")

AudioTimerDue == AtGet /\ audio_queue = <<>> /\ t_audio = audio_timeout

DeadlineDue == DeadlineCovers(pc) /\ t_pipe = pipeline_timeout

\* the external pipeline is running its own code (not suspended inside stt_stream)
PipelineRunning == pc = "pipeline" /\ gen \in {"unstarted", "yielded", "done"}

\* faulty variant: a replayed chunk is fed to the segmenter again
ProcessedAgainOnReplay(p, c) == Append(p, c)

\* _segment_audio: `yield buffered_chunk` hands the chunk on without a call
\* of segmenter.process; p is the sequence of chunks the segmenter was fed
ProcessedAfterReplay(p, c) == p

\* ---- initial state: after __init__ ---------------------------------------

\* NotConfiguredRtpDatagramProtocol.__init__
InitAnnouncer ==
  /\ nc_transport = None
  /\ nc_audio_bytes = None
  /\ nc_audio_task = None
  /\ nc_pc = "idle"
  /\ nc_t = 0
  /\ nc_chunks = 0
  /\ nc_spawned = 0
  /\ nc_active = 0


Init ==
  /\ pipeline_timeout = PipelineTimeoutTicks
  /\ audio_timeout = AudioTimeoutTicks
  /\ listening_tone_enabled \in BOOLEAN
  /\ processing_tone_enabled \in BOOLEAN
  /\ audio_queue = <<>>
  /\ conversation_id = None
  /\ pipeline_task = None
  /\ session_id = None
  /\ pc = "idle"
  /\ in_command = FALSE
  /\ chunk_buffer = <<>>
  /\ gen = "none"
  /\ replay_idx = 1
  /\ abandoned = FALSE
  /\ disconnect_requested = FALSE
  /\ passed_conversation_id = None
  /\ send_tasks = <<>>
  /\ transport = "open"
  /\ t_audio = 0
  /\ t_pipe = 0
  /\ t_wait = 0
  /\ nextId = 0
  /\ sessions = 1
  /\ active = 0
  /\ outcome = "None"
  /\ cycle_first = 0
  /\ dequeued = <<>>
  /\ streamed = <<>>
  /\ last_intent = None
  /\ processed = <<>>
  /\ tts_events = <<>>
  /\ InitAnnouncer

\* __init__ for the next call: a new instance with fresh fields
InitialConversationId(previous) == None

Construct ==
  /\ sessions < MaxSessions
  /\ sessions' = sessions + 1
  /\ audio_queue' = <<>>
  /\ conversation_id' = InitialConversationId(conversation_id)
  /\ pipeline_task' = None
  /\ session_id' = None
  /\ pc' = "idle"
  /\ in_command' = FALSE
  /\ chunk_buffer' = <<>>
  /\ gen' = "none"
  /\ replay_idx' = 1
  /\ abandoned' = FALSE
  /\ disconnect_requested' = FALSE
  /\ passed_conversation_id' = None
  /\ send_tasks' = <<>>
  /\ transport' = "open"
  /\ t_audio' = 0
  /\ t_pipe' = 0
  /\ t_wait' = 0
  /\ active' = 0
  /\ outcome' = "None"
  /\ cycle_first' = nextId
  /\ dequeued' = <<>>
  /\ streamed' = <<>>
  /\ last_intent' = None
  /\ processed' = <<>>
  /\ tts_events' = <<>>
  /\ UNCHANGED <<announcer, config, nextId>>

\* ---- on_chunk -------------------------------------------------------------

\* on_chunk(audio_bytes), for a chunk of the given kind; at most `limit`
\* chunks are delivered in a run
Deliver(kind, limit) ==
  /\ nextId < limit
  /\ LET c == [id |-> nextId, kind |-> kind]
         spawn == ShouldSpawn(pipeline_task)
     IN /\ audio_queue' = OnChunkQueue(audio_queue, spawn, c)
        /\ nextId' = nextId + 1
        /\ IF spawn
             THEN /\ pipeline_task' = "task"
                  /\ active' = active + 1
                  /\ pc' = "start"
                  /\ outcome' = "None"
                  /\ cycle_first' = c.id
                  /\ dequeued' = <<>>
                  /\ streamed' = <<>>
                  /\ processed' = <<>>
             ELSE UNCHANGED <<pipeline_task, active, pc, outcome, cycle_first,
                              dequeued, streamed, processed>>
  /\ UNCHANGED <<announcer, config, conversation_id, session_id,
                 in_command, chunk_buffer, gen, replay_idx, abandoned, collab, clocks,
                 sessions, last_intent, tts_events>>

OnChunk(kind) == Deliver(kind, MaxChunks)

\* ---- _run_pipeline ----------------------------------------------------------

\* `segmenter = VoiceCommandSegmenter(); chunk_buffer = deque(...)` and the
\* first `await self._audio_queue.get()` of _wait_for_speech
EnterWait ==
  /\ pc' = "wait_get"
  /\ in_command' = FALSE
  /\ chunk_buffer' = <<>>
  /\ t_audio' = 0
  /\ t_wait' = 0

\* `finally: self._pipeline_task = None`, the task ends and its locals and
\* the pipeline call's arguments are gone; oc records why it ended:
\* "NoSpeech", "WaitTimeout", "Completed", "PipelineFailed", "DeadlineExpired"
ExitCycle(oc) ==
  /\ pipeline_task' = None
  /\ pc' = "idle"
  /\ active' = active - 1
  /\ outcome' = oc
  /\ in_command' = FALSE
  /\ chunk_buffer' = <<>>
  /\ gen' = "none"
  /\ replay_idx' = 1
  /\ t_audio' = 0
  /\ t_pipe' = 0
  /\ t_wait' = 0
  /\ passed_conversation_id' = None

\* faulty variant: every cycle is taken for the first of the call
SessionAlwaysUnset(sid) == TRUE

\* `if self._session_id is None`
SessionUnset(sid) == sid = None

\* the task's first step: the session id check
RunPipelineStart ==
  /\ pc = "start"
  /\ IF SessionUnset(session_id)
       THEN /\ session_id' = "ulid"
            /\ IF listening_tone_enabled
                 THEN /\ pc' = "tone"
                      /\ UNCHANGED <<in_command, chunk_buffer, t_audio, t_wait>>
                 ELSE EnterWait
       ELSE /\ EnterWait
            /\ UNCHANGED session_id
  /\ UNCHANGED <<announcer, config, audio_queue, conversation_id, pipeline_task,
                 gen, replay_idx, abandoned, collab, t_pipe, book>>

\* _play_listening_tone returned
ListeningToneDone ==
  /\ pc = "tone"
  /\ EnterWait
  /\ UNCHANGED <<announcer, config, audio_queue, conversation_id, pipeline_task, session_id,
                 gen, replay_idx, abandoned, collab, t_pipe, book>>

\* _play_listening_tone raised (the file could not be read, or the send
\* failed): the await is outside the try, the task ends with the exception
ListeningToneFail ==
  /\ pc = "tone"
  /\ pc' = "dead"
  /\ active' = active - 1
  /\ outcome' = "Crashed"
  /\ UNCHANGED <<announcer, config, audio_queue, conversation_id, pipeline_task, session_id,
                 in_command, chunk_buffer, gen, replay_idx, abandoned,
                 collab, clocks, nextId, sessions, cycle_first, dequeued, streamed,
                 last_intent, tts_events, processed>>

\* _wait_for_speech: queue.get() returned a chunk
WaitForSpeechGet ==
  /\ pc = "wait_get"
  /\ audio_queue # <<>>
  /\ LET c == Head(audio_queue)
         seg == SegmenterProcess(in_command, c)
     IN /\ audio_queue' = Tail(audio_queue)
        /\ dequeued' = Append(dequeued, c)
        /\ processed' = IF Truthy(c) THEN Append(processed, c) ELSE processed
        /\ IF ~Truthy(c)
             THEN \* `while chunk` ends, return False, "No speech detected"
                  ExitCycle("NoSpeech")
             ELSE IF seg.in_command
               THEN \* return True; the pipeline is called under the deadline
                    /\ pc' = "pipeline"
                    /\ in_command' = TRUE
                    /\ gen' = "unstarted"
                    /\ replay_idx' = 1
                    /\ t_pipe' = 0
                    /\ passed_conversation_id' = conversation_id
                    /\ t_wait' = 0
                    /\ UNCHANGED <<pipeline_task, active, outcome, chunk_buffer,
                                   t_audio>>
               ELSE /\ chunk_buffer' = DequeAppend(chunk_buffer, c)
                    /\ in_command' = seg.in_command
                    /\ t_audio' = 0
                    /\ UNCHANGED <<pipeline_task, active, outcome, pc, gen, replay_idx,
                                   t_pipe, t_wait, passed_conversation_id>>
  /\ UNCHANGED <<announcer, config, conversation_id, session_id,
                 abandoned, disconnect_requested, send_tasks, transport, nextId,
                 sessions, cycle_first, streamed, last_intent, tts_events>>

\* _wait_for_speech: the audio timeout expired in queue.get()
WaitForSpeechTimeout ==
  /\ pc = "wait_get"
  /\ AudioTimerDue
  /\ LET h == AfterRaise("TimeoutError", session_id, disconnect_requested)
     IN /\ session_id' = h.session_id
        /\ disconnect_requested' = h.disconnect_requested
  /\ ExitCycle("WaitTimeout")
  /\ UNCHANGED <<announcer, config, audio_queue, conversation_id,
                 abandoned, send_tasks, transport, nextId, sessions,
                 cycle_first, dequeued, streamed, last_intent, tts_events, processed>>

\* ---- stt_stream / _segment_audio, driven by the external pipeline --------

\* faulty variant: the processing tone is never played
StreamEndSkipsTone(q) == gen' = "done" /\ audio_queue' = ClearAudioQueue(q)

\* _segment_audio returned (command finished, or a falsy chunk): stt_stream
\* plays the processing tone when enabled, then its finally clears the queue
StreamEnd(q) ==
  IF processing_tone_enabled
    THEN gen' = "ptone" /\ audio_queue' = q
    ELSE gen' = "done" /\ audio_queue' = ClearAudioQueue(q)

\* _segment_audio: queue.get() returned a chunk
LiveDequeue ==
  LET c == Head(audio_queue)
      seg == SegmenterProcess(in_command, c)
      q == Tail(audio_queue)
  IN /\ dequeued' = Append(dequeued, c)
     /\ t_audio' = 0
     /\ IF ~Truthy(c)
          THEN StreamEnd(q) /\ UNCHANGED <<in_command, streamed, processed>>
          ELSE IF ~seg.result
            THEN \* "Voice command is finished": break, the chunk is not yielded
                 /\ StreamEnd(q)
                 /\ in_command' = seg.in_command
                 /\ processed' = Append(processed, c)
                 /\ UNCHANGED streamed
            ELSE /\ streamed' = Append(streamed, c)
                 /\ processed' = Append(processed, c)
                 /\ in_command' = seg.in_command
                 /\ gen' = "yielded"
                 /\ audio_queue' = q

\* the pipeline asks stt_stream for the next chunk
SttStreamNext ==
  /\ pc = "pipeline"
  /\ gen \in {"unstarted", "yielded"}
  /\ IF ReplayPending(chunk_buffer, replay_idx)
       THEN /\ streamed' = Append(streamed, chunk_buffer[replay_idx])
            /\ replay_idx' = replay_idx + 1
            /\ gen' = "yielded"
            /\ processed' = ProcessedAfterReplay(processed, chunk_buffer[replay_idx])
            /\ UNCHANGED <<audio_queue, in_command, dequeued, t_audio>>
       ELSE IF audio_queue = <<>>
         THEN /\ gen' = "get"
              /\ t_audio' = 0
              /\ UNCHANGED <<audio_queue, in_command, dequeued, streamed, processed,
                             replay_idx>>
         ELSE LiveDequeue /\ UNCHANGED replay_idx
  /\ UNCHANGED <<announcer, config, conversation_id, pipeline_task, session_id,
                 pc, chunk_buffer, abandoned, collab, t_pipe, t_wait,
                 nextId, sessions, active, outcome, cycle_first, last_intent, tts_events>>

\* stt_stream was suspended in queue.get() and a chunk has arrived
SttStreamGet ==
  /\ pc = "pipeline"
  /\ gen = "get"
  /\ audio_queue # <<>>
  /\ LiveDequeue
  /\ UNCHANGED <<announcer, config, conversation_id, pipeline_task, session_id,
                 pc, chunk_buffer, replay_idx, abandoned, collab,
                 t_pipe, t_wait, nextId, sessions, active, outcome, cycle_first,
                 last_intent, tts_events>>

\* the audio timeout expired in _segment_audio: stt_stream's except and finally
SttStreamTimeout ==
  /\ pc = "pipeline"
  /\ gen = "get"
  /\ AudioTimerDue
  /\ LET h == HandleTimeoutError(session_id, disconnect_requested)
     IN /\ session_id' = h.session_id
        /\ disconnect_requested' = h.disconnect_requested
  /\ audio_queue' = ClearAudioQueue(audio_queue)
  /\ gen' = "done"
  /\ t_audio' = 0
  /\ UNCHANGED <<announcer, config, conversation_id, pipeline_task,
                 pc, in_command, chunk_buffer, replay_idx, abandoned,
                 passed_conversation_id, send_tasks, transport, t_pipe, t_wait, book>>

\* _play_processing_tone returned or raised; stt_stream's finally either way
ProcessingToneDone ==
  /\ pc = "pipeline"
  /\ gen = "ptone"
  /\ audio_queue' = ClearAudioQueue(audio_queue)
  /\ gen' = "done"
  /\ UNCHANGED <<announcer, config, conversation_id, pipeline_task, session_id,
                 pc, in_command, chunk_buffer, replay_idx, abandoned, collab, clocks,
                 book>>

\* ---- the external pipeline --------------------------------------------------

\* hass.async_create_background_task(self._send_media(media_id), ...): the
\* new task has not run yet
NewSendTask(media) == [media_id |-> media, st |-> "created", invoked_with |-> "none"]

\* the pipeline calls event_callback
EventCallback(type, has_data, cid, media) ==
  /\ PipelineRunning
  /\ (has_data /\ type = "TTS_END") => Len(tts_events) < MaxSends
  /\ conversation_id' = CapturedConversationId(conversation_id, type, has_data, cid)
  /\ send_tasks' = IF SpawnsSendTask(type, has_data)
                     THEN Append(send_tasks, NewSendTask(media))
                     ELSE send_tasks
  /\ last_intent' = IF has_data /\ type = "INTENT_END" THEN cid ELSE last_intent
  /\ tts_events' = IF has_data /\ type = "TTS_END"
                     THEN Append(tts_events, media) ELSE tts_events
  /\ UNCHANGED <<announcer, config, audio_queue, pipeline_task, session_id,
                 task, disconnect_requested, passed_conversation_id, transport,
                 clocks, nextId, sessions, active, outcome, cycle_first, dequeued,
                 streamed, processed>>

\* a stt_stream left suspended at a yield is closed later by the event loop
Abandon == abandoned' = (abandoned \/ gen = "yielded")

\* async_pipeline_from_audio_stream returned
PipelineComplete ==
  /\ PipelineRunning
  /\ ExitCycle("Completed")
  /\ Abandon
  /\ UNCHANGED <<announcer, config, audio_queue, conversation_id, session_id,
                 disconnect_requested, send_tasks, transport, nextId, sessions,
                 cycle_first, dequeued, streamed, last_intent, tts_events, processed>>

\* async_pipeline_from_audio_stream raised something other than TimeoutError
PipelineFail ==
  /\ PipelineRunning
  /\ LET h == AfterRaise("PipelineError", session_id, disconnect_requested)
     IN /\ session_id' = h.session_id
        /\ disconnect_requested' = h.disconnect_requested
  /\ ExitCycle("PipelineFailed")
  /\ Abandon
  /\ UNCHANGED <<announcer, config, audio_queue, conversation_id, send_tasks,
                 transport, nextId, sessions, cycle_first, dequeued, streamed,
                 last_intent, tts_events, processed>>

\* the pipeline timeout expired: the task is cancelled where it is suspended
\* and `except asyncio.TimeoutError` of _run_pipeline runs
PipelineDeadline ==
  /\ DeadlineDue
  /\ IF gen \in {"get", "ptone"}
       THEN \* the cancellation goes through stt_stream's finally
            audio_queue' = ClearAudioQueue(audio_queue) /\ UNCHANGED abandoned
       ELSE Abandon /\ UNCHANGED audio_queue
  /\ LET h == AfterRaise("TimeoutError", session_id, disconnect_requested)
     IN /\ session_id' = h.session_id
        /\ disconnect_requested' = h.disconnect_requested
  /\ ExitCycle("DeadlineExpired")
  /\ UNCHANGED <<announcer, config, conversation_id, send_tasks, transport, nextId,
                 sessions, cycle_first, dequeued, streamed, last_intent, tts_events, processed>>

\* the event loop closes an abandoned stt_stream: GeneratorExit at its yield,
\* its finally clears the queue
FinalizeStream ==
  /\ abandoned
  /\ abandoned' = FALSE
  /\ audio_queue' = ClearAudioQueue(audio_queue)
  /\ UNCHANGED <<announcer, config, conversation_id, pipeline_task, session_id,
                 pc, in_command, chunk_buffer, gen, replay_idx,
                 collab, clocks, book>>

\* ---- _send_media, a detached task per TTS_END event ---------------------

RemoveAt(seq, i) == SubSeq(seq, 1, i - 1) \o SubSeq(seq, i + 1, Len(seq))

\* `if self.transport is None: return`, the only look at the transport
TransportClosed(tr) == tr = None

\* the task's first step: the transport check, then it is suspended in
\* tts.async_get_media_source_audio
SendMediaStart(i) ==
  /\ i \in 1..Len(send_tasks)
  /\ send_tasks[i].st = "created"
  /\ send_tasks' = IF TransportClosed(transport)
                     THEN RemoveAt(send_tasks, i)
                     ELSE [send_tasks EXCEPT ![i].st = "resolving"]
  /\ UNCHANGED <<announcer, config, fields, task, disconnect_requested,
                 passed_conversation_id, transport, clocks, book>>

\* the audio bytes are resolved: send_audio is handed to the executor,
\* whatever the transport is by now
SendMediaResolved(i) ==
  /\ i \in 1..Len(send_tasks)
  /\ send_tasks[i].st = "resolving"
  /\ send_tasks' = [send_tasks EXCEPT
                      ![i].st = "sending",
                      ![i].invoked_with = IF transport = None THEN "closed" ELSE "open"]
  /\ UNCHANGED <<announcer, config, fields, task, disconnect_requested,
                 passed_conversation_id, transport, clocks, book>>

\* tts.async_get_media_source_audio raised: the task ends with the exception
SendMediaFail(i) ==
  /\ i \in 1..Len(send_tasks)
  /\ send_tasks[i].st = "resolving"
  /\ send_tasks' = RemoveAt(send_tasks, i)
  /\ UNCHANGED <<announcer, config, fields, task, disconnect_requested,
                 passed_conversation_id, transport, clocks, book>>

\* send_audio returned or raised: the task ends
SendMediaDone(i) ==
  /\ i \in 1..Len(send_tasks)
  /\ send_tasks[i].st = "sending"
  /\ send_tasks' = RemoveAt(send_tasks, i)
  /\ UNCHANGED <<announcer, config, fields, task, disconnect_requested,
                 passed_conversation_id, transport, clocks, book>>

\* connection_lost: the transport is gone
ConnectionLost ==
  /\ transport # None
  /\ transport' = None
  /\ UNCHANGED <<announcer, config, fields, task, disconnect_requested,
                 passed_conversation_id, send_tasks, clocks, book>>

\* ---- time -----------------------------------------------------------------

\* one tick passes; an expired timeout fires before time moves on
Tick ==
  /\ pc \in {"wait_get", "pipeline"}
  /\ ~AudioTimerDue
  /\ ~DeadlineDue
  /\ t_audio' = IF AtGet /\ audio_queue = <<>>
                  THEN Min(t_audio + 1, audio_timeout) ELSE t_audio
  /\ t_pipe' = IF DeadlineCovers(pc) THEN Min(t_pipe + 1, pipeline_timeout) ELSE t_pipe
  /\ t_wait' = IF pc = "wait_get" THEN Min(t_wait + 1, pipeline_timeout + 1) ELSE t_wait
  /\ clocks' # clocks
  /\ UNCHANGED <<announcer, config, fields, task, collab, book>>

Next ==
  \/ Construct
  \/ \E kind \in ChunkKinds : OnChunk(kind)
  \/ RunPipelineStart
  \/ ListeningToneDone
  \/ ListeningToneFail
  \/ WaitForSpeechGet
  \/ WaitForSpeechTimeout
  \/ SttStreamNext
  \/ SttStreamGet
  \/ SttStreamTimeout
  \/ ProcessingToneDone
  \/ \E e \in Events : EventCallback(e.type, e.has_data, e.cid, e.media)
  \/ PipelineComplete
  \/ PipelineFail
  \/ PipelineDeadline
  \/ FinalizeStream
  \/ Tick

Spec == Init /\ [][Next]_vars

\* ---- external cancellation of the cycle task ------------------------------

\* task.cancel() from outside (the background tasks are cancelled when Home
\* Assistant stops): CancelledError is raised where the task is suspended.
\* Before the task's first step and during the listening tone the task is
\* outside the try block: it ends without running the finally.  Inside the try
\* block no handler catches it, the finally resets the handle; a task
\* suspended inside stt_stream goes through its finally first.
Cancel ==
  /\ pipeline_task # None
  /\ pc \in {"start", "tone", "wait_get", "pipeline"}
  /\ IF pc \in {"start", "tone"}
       THEN /\ pc' = "dead"
            /\ active' = active - 1
            /\ outcome' = "Cancelled"
            /\ UNCHANGED <<audio_queue, pipeline_task, session_id, in_command,
                           chunk_buffer, gen, replay_idx, abandoned,
                           disconnect_requested, passed_conversation_id, clocks>>
       ELSE /\ IF pc = "pipeline" /\ gen \in {"get", "ptone"}
                 THEN audio_queue' = ClearAudioQueue(audio_queue) /\ UNCHANGED abandoned
                 ELSE IF pc = "pipeline"
                   THEN Abandon /\ UNCHANGED audio_queue
                   ELSE UNCHANGED <<audio_queue, abandoned>>
            /\ LET h == AfterRaise("CancelledError", session_id, disconnect_requested)
               IN /\ session_id' = h.session_id
                  /\ disconnect_requested' = h.disconnect_requested
            /\ ExitCycle("Cancelled")
  /\ UNCHANGED <<announcer, config, conversation_id, send_tasks, transport, nextId,
                 sessions, cycle_first, dequeued, streamed, last_intent, processed,
                 tts_events>>

NextCancel ==
  \/ Next
  \/ Cancel

SpecCancel == Init /\ [][NextCancel]_vars

\* ---- a scripted call: ScenarioPreSpeech chunks without speech, then
\* ScenarioCommand chunks of speech (the first one starts the command), then
\* the chunk on which the command ends

ScriptLen == ScenarioPreSpeech + ScenarioCommand + 1

ScriptKind(i) ==
  IF i < ScenarioPreSpeech THEN "quiet"
  ELSE IF i < ScenarioPreSpeech + ScenarioCommand THEN "speech"
  ELSE "end"

ScriptedChunk == Deliver(ScriptKind(nextId), ScriptLen)

NextScenario ==
  \/ ScriptedChunk
  \/ RunPipelineStart
  \/ ListeningToneDone
  \/ ListeningToneFail
  \/ WaitForSpeechGet
  \/ WaitForSpeechTimeout
  \/ SttStreamNext
  \/ SttStreamGet
  \/ SttStreamTimeout
  \/ ProcessingToneDone
  \/ \E e \in Events : EventCallback(e.type, e.has_data, e.cid, e.media)
  \/ PipelineComplete
  \/ PipelineFail
  \/ PipelineDeadline
  \/ FinalizeStream
  \/ Tick

SpecScenario == Init /\ [][NextScenario]_vars

\* ---- a call with synthesized audio: the tones are disabled, audio keeps
\* coming (no timeout expires), the pipeline reports TTS_END events with data
\* and the transport can be lost at any moment

InitSend ==
  /\ Init
  /\ ~listening_tone_enabled
  /\ ~processing_tone_enabled

\* the transport delivers chunks as long as it is there
SendChunk(kind) == transport # None /\ Deliver(kind, SendChunks)

SendEvents == MediaEvents \cup {e \in Events : e.type # "INTENT_END"}

NextSend ==
  \/ \E kind \in {"quiet", "speech"} : SendChunk(kind)
  \/ RunPipelineStart
  \/ WaitForSpeechGet
  \/ SttStreamNext
  \/ SttStreamGet
  \/ \E e \in SendEvents : EventCallback(e.type, e.has_data, e.cid, e.media)
  \/ PipelineComplete
  \/ PipelineFail
  \/ FinalizeStream
  \/ \E i \in 1..MaxSends : SendMediaStart(i)
  \/ \E i \in 1..MaxSends : SendMediaResolved(i)
  \/ \E i \in 1..MaxSends : SendMediaFail(i)
  \/ \E i \in 1..MaxSends : SendMediaDone(i)
  \/ ConnectionLost

SpecSend == InitSend /\ [][NextSend]_vars

\* ---- a long call: LookbackPreSpeech chunks without speech, two chunks of
\* speech, then the chunk on which the command ends; the audio keeps coming
\* (no timeout expires) and the task keeps up with it

LookbackLen == LookbackPreSpeech + 3

LookbackKind(i) ==
  IF i < LookbackPreSpeech THEN "quiet"
  ELSE IF i < LookbackPreSpeech + 2 THEN "speech"
  ELSE "end"

LookbackChunk ==
  /\ Len(audio_queue) < LookbackBacklog
  /\ Deliver(LookbackKind(nextId), LookbackLen)

NextLookback ==
  \/ LookbackChunk
  \/ RunPipelineStart
  \/ ListeningToneDone
  \/ WaitForSpeechGet
  \/ SttStreamNext
  \/ SttStreamGet
  \/ ProcessingToneDone
  \/ PipelineComplete
  \/ FinalizeStream

SpecLookback == Init /\ [][NextLookback]_vars

\* ---- NotConfiguredRtpDatagramProtocol ---------------------------------------

\* faulty variant: a task is spawned for every chunk
NcAlwaysSpawn(t) == TRUE

\* on_chunk: `if self._audio_task is None`
NcShouldSpawn(t) == t = None

NcConnectionMade ==
  /\ nc_transport = None
  /\ nc_chunks = 0
  /\ nc_transport' = "open"
  /\ UNCHANGED <<session, nc_audio_bytes, nc_audio_task, nc_pc, nc_t,
                 nc_chunks, nc_spawned, nc_active>>

NcConnectionLost ==
  /\ nc_transport # None
  /\ nc_transport' = None
  /\ UNCHANGED <<session, nc_audio_bytes, nc_audio_task, nc_pc, nc_t,
                 nc_chunks, nc_spawned, nc_active>>

\* on_chunk(audio_bytes): the message is loaded on the first call with a
\* transport, then a task is spawned unless one is scheduled
NcOnChunk ==
  /\ nc_chunks < MaxNcChunks
  /\ nc_chunks' = nc_chunks + 1
  /\ IF nc_transport = None
       THEN UNCHANGED <<nc_audio_bytes, nc_audio_task, nc_pc, nc_spawned, nc_active>>
       ELSE /\ nc_audio_bytes' = "pcm"
            /\ IF NcShouldSpawn(nc_audio_task)
                 THEN /\ nc_audio_task' = "task"
                      /\ nc_pc' = "start"
                      /\ nc_spawned' = nc_spawned + 1
                      /\ nc_active' = nc_active + 1
                 ELSE UNCHANGED <<nc_audio_task, nc_pc, nc_spawned, nc_active>>
  /\ UNCHANGED <<session, nc_transport, nc_t>>

\* on_chunk: not_configured.pcm cannot be read, read_bytes raises
NcOnChunkLoadFail ==
  /\ nc_chunks < MaxNcChunks
  /\ nc_transport # None
  /\ nc_audio_bytes = None
  /\ nc_chunks' = nc_chunks + 1
  /\ UNCHANGED <<session, nc_transport, nc_audio_bytes, nc_audio_task, nc_pc, nc_t,
                 nc_spawned, nc_active>>

\* _play_message: the task's first step hands send_audio to the executor
NcPlayMessageStart ==
  /\ nc_pc = "start"
  /\ nc_pc' = "send"
  /\ UNCHANGED <<session, nc_transport, nc_audio_bytes, nc_audio_task, nc_t,
                 nc_chunks, nc_spawned, nc_active>>

\* send_audio returned: `await asyncio.sleep(_LOOP_DELAY)`
NcSendDone ==
  /\ nc_pc = "send"
  /\ nc_pc' = "sleep"
  /\ nc_t' = 0
  /\ UNCHANGED <<session, nc_transport, nc_audio_bytes, nc_audio_task,
                 nc_chunks, nc_spawned, nc_active>>

\* send_audio raised: the task ends with the exception, the handle stays set
NcSendFail ==
  /\ nc_pc = "send"
  /\ nc_pc' = "dead"
  /\ nc_active' = nc_active - 1
  /\ UNCHANGED <<session, nc_transport, nc_audio_bytes, nc_audio_task, nc_t,
                 nc_chunks, nc_spawned>>

\* a second of the cooldown passes
NcTick ==
  /\ nc_pc = "sleep"
  /\ nc_t < LOOP_DELAY
  /\ nc_t' = nc_t + 1
  /\ UNCHANGED <<session, nc_transport, nc_audio_bytes, nc_audio_task, nc_pc,
                 nc_chunks, nc_spawned, nc_active>>

\* the sleep is over: `self._audio_task = None`, the task ends
NcSleepDone ==
  /\ nc_pc = "sleep"
  /\ nc_t = LOOP_DELAY
  /\ nc_audio_task' = None
  /\ nc_pc' = "idle"
  /\ nc_t' = 0
  /\ nc_active' = nc_active - 1
  /\ UNCHANGED <<session, nc_transport, nc_audio_bytes, nc_chunks, nc_spawned>>

NextAnnouncer ==
  \/ NcConnectionMade
  \/ NcConnectionLost
  \/ NcOnChunk
  \/ NcOnChunkLoadFail
  \/ NcPlayMessageStart
  \/ NcSendDone
  \/ NcSendFail
  \/ NcTick
  \/ NcSleepDone

SpecAnnouncer == Init /\ [][NextAnnouncer]_vars

\* ---- properties -----------------------------------------------------------

Range(seq) == {seq[i] : i \in 1..Len(seq)}

\* C1: at most one pipeline cycle task is active per session at any time, and
\* an active task is always the one the handle refers to; a chunk that arrives
\* while the handle is set spawns nothing and is only enqueued.
C1_InvSingleFlight ==
  /\ active \in {0, 1}
  /\ active = 1 => pipeline_task # None

\* C1, with the behaviour of on_chunk while a cycle is active
C1_SingleFlight ==
  /\ []C1_InvSingleFlight
  /\ [][(nextId' = nextId + 1 /\ pipeline_task # None)
          => /\ active' = active
             /\ pipeline_task' = pipeline_task
             /\ Len(audio_queue') = Len(audio_queue) + 1
             /\ audio_queue'[Len(audio_queue')].id = nextId]_vars

\* a chunk arrived while the cycle was running the pipeline and waits in the queue
C1_Witness ==
  /\ active = 1
  /\ pc = "pipeline"
  /\ audio_queue # <<>>
  /\ nextId >= 2

\* C2 (as stated): whenever a cycle has exited, by whatever path, the chunk
\* queue is empty.
C2_QueueEmptyAtExit == (pc = "idle" /\ outcome # "None") => audio_queue = <<>>

\* C2 (amended): the queue is emptied at the moment the audio sequence handed
\* to the pipeline (stt_stream) ends - by the command's end, a falsy chunk, the
\* inter-chunk timeout, or the deadline cancelling the task inside it.
C2_StreamEndClearsQueue ==
  [][(\/ gen # "done" /\ gen' = "done"
      \/ gen \in {"get", "ptone"} /\ gen' = "none")
       => audio_queue' = <<>>]_vars

\* the sequence has ended with an empty queue although a chunk of this cycle
\* was never dequeued: it was discarded
C2_Witness ==
  /\ pc = "pipeline"
  /\ gen = "done"
  /\ audio_queue = <<>>
  /\ cycle_first + Len(dequeued) < nextId

\* C3: no chunk is replayed into a later cycle: whatever the cycle dequeues,
\* and whatever waits in the queue while the cycle is active, was enqueued by
\* the on_chunk call that spawned the cycle or by a later one; right after an
\* on_chunk call that found the session idle the queue holds exactly the
\* triggering chunk.
C3_InvFresh ==
  /\ \A c \in Range(dequeued) : c.id >= cycle_first
  /\ pipeline_task # None => \A c \in Range(audio_queue) : c.id >= cycle_first

\* C3, with the state right after an on_chunk call that spawned a cycle
C3_NoReplay ==
  /\ []C3_InvFresh
  /\ [][(nextId' = nextId + 1 /\ pipeline_task = None)
          => /\ Len(audio_queue') = 1
             /\ audio_queue'[1].id = nextId
             /\ cycle_first' = nextId]_vars

\* a second cycle of the session has dequeued a chunk, and a chunk older than
\* the cycle had been delivered to the session before
C3_Witness ==
  /\ pipeline_task # None
  /\ dequeued # <<>>
  /\ cycle_first >= 2
  /\ sessions = 1

\* C4: when the inter-chunk timeout expires while the cycle waits for speech,
\* after any number of chunks that did not start a command, the cycle ends:
\* the session id is cleared, a disconnect is requested and the task handle is
\* none again.
C4_WaitTimeoutHangsUp ==
  outcome = "WaitTimeout"
    => /\ pc = "idle"
       /\ pipeline_task = None
       /\ active = 0
       /\ session_id = None
       /\ disconnect_requested

\* the cycle timed out after two chunks on which no command started
C4_Witness ==
  /\ outcome = "WaitTimeout"
  /\ Len(dequeued) >= 2
  /\ \A c \in Range(dequeued) : c.kind # "speech"
  /\ session_id = None

\* C5: the sequence streamed to the pipeline starts with the retained
\* pre-speech chunks in their arrival order; a chunk dequeued after speech was
\* detected comes only after all of them, and the whole sequence is in arrival
\* (queue) order.
C5_BufferedFirst ==
  pc = "pipeline"
    => LET n == Len(chunk_buffer)
       IN /\ \A i \in 1..Len(streamed) : i <= n => streamed[i] = chunk_buffer[i]
          /\ \A i \in 1..Len(streamed) :
               i > n => /\ streamed[i] \in Range(dequeued)
                        /\ \A b \in 1..n : chunk_buffer[b].id < streamed[i].id
          /\ \A i, j \in 1..Len(streamed) : i < j => streamed[i].id < streamed[j].id

\* a buffered chunk and then a freshly dequeued chunk have been streamed
C5_Witness ==
  /\ pc = "pipeline"
  /\ Len(chunk_buffer) >= 1
  /\ Len(streamed) > Len(chunk_buffer)

\* C6 (as stated): when the cycle has dequeued the 10 pre-speech chunks, then
\* the N chunks with the command in progress, the first of them the one that
\* made in_command true, then the chunk on which the command ended, the
\* streamed sequence is exactly the 10 + N chunks before the command-end
\* chunk, in arrival order.
C6_StreamsAllBeforeCommandEnd ==
  LET n == Len(dequeued)
      p == ScenarioPreSpeech
  IN (/\ pc = "pipeline"
      /\ gen \in {"ptone", "done"}
      /\ n >= p + 2
      /\ dequeued[n].kind = "end"
      /\ \A i \in 1..p : dequeued[i].kind = "quiet"
      /\ dequeued[p + 1].kind = "speech"
      /\ \A i \in (p + 2)..(n - 1) : dequeued[i].kind \in {"quiet", "speech"})
       => /\ Len(streamed) = n - 1
          /\ streamed = SubSeq(dequeued, 1, n - 1)

\* C7 (as stated): the whole-cycle deadline covers the wait for speech, so a
\* cycle never stays in _wait_for_speech longer than pipeline_timeout.
C7_DeadlineCoversWait == pc = "wait_get" => t_wait <= pipeline_timeout

\* C7 (amended): the deadline runs only while the pipeline call is in
\* progress: its clock stands still during the wait for speech, it has
\* expired at the latest pipeline_timeout after the pipeline was called, and
\* only a cycle in which speech was detected ends by the deadline.
C7_DeadlineCoversPipelineOnly ==
  /\ pc # "pipeline" => t_pipe = 0
  /\ pc = "pipeline" => t_pipe <= pipeline_timeout
  /\ outcome = "DeadlineExpired" => \E c \in Range(dequeued) : c.kind = "speech"

\* the cycle is still waiting for speech after more than pipeline_timeout,
\* having buffered two chunks
C7_Witness ==
  /\ pc = "wait_get"
  /\ t_wait > pipeline_timeout
  /\ Len(chunk_buffer) >= 2
  /\ t_pipe = 0

\* C8: the conversation id captured from the latest INTENT_END event of the
\* session is what the next pipeline call receives as conversation_id, and a
\* newly constructed instance starts without one.
C8_ConversationIdCarriedOver ==
  [][/\ (pc # "pipeline" /\ pc' = "pipeline")
          => passed_conversation_id' = last_intent
     /\ sessions' # sessions => conversation_id' = None]_vars

\* a pipeline call of a later cycle has received a captured conversation id
C8_Witness ==
  /\ pc = "pipeline"
  /\ passed_conversation_id \in ConversationIds
  /\ cycle_first >= 1

\* C9 (as stated): once a cycle has ended by the inter-chunk timeout or by the
\* deadline, the session's conversation id is cleared.
C9_TimeoutClearsConversationId ==
  outcome \in {"WaitTimeout", "DeadlineExpired"} => conversation_id = None

\* C10 (as stated): when the pipeline fails with a fault other than a timeout
\* the cycle ends with the queue cleared, the handle none, the session id
\* unchanged and no disconnect requested.
C10_FailureClearsQueue ==
  [][(outcome # "PipelineFailed" /\ outcome' = "PipelineFailed")
       => /\ audio_queue' = <<>>
          /\ pipeline_task' = None
          /\ session_id' = session_id
          /\ disconnect_requested' = disconnect_requested]_vars

\* C10 (amended): when the pipeline fails with a fault other than a timeout
\* the cycle ends with the handle none, the session id unchanged and no
\* disconnect requested (the exit does not clear the queue).
C10_FailureKeepsCall ==
  [][(outcome # "PipelineFailed" /\ outcome' = "PipelineFailed")
       => /\ pipeline_task' = None
          /\ pc' = "idle"
          /\ active' = 0
          /\ session_id' = session_id
          /\ disconnect_requested' = disconnect_requested]_vars

\* the pipeline failed: the call is still connected, the session id is kept
\* and a chunk that arrived during the cycle is still in the queue
C10_Witness ==
  /\ outcome = "PipelineFailed"
  /\ pipeline_task = None
  /\ session_id # None
  /\ ~disconnect_requested
  /\ audio_queue # <<>>

\* C11: a failure to load or send the listening prompt at the start of a
\* cycle does not wedge the session: once the cycle task has ended with that
\* failure the task handle is none again, so the next chunk starts a new cycle.
C11_ToneFailureReleasesHandle ==
  outcome = "Crashed" => (pipeline_task = None /\ pc = "idle")

\* C12: each TTS_END event that carries data spawns exactly one detached send
\* task, for the media id of that event, and nothing else spawns one; the
\* cycle does not wait for it: the event leaves the cycle where it is, and
\* neither the cycle's exit nor the next on_chunk call touches the send tasks.
C12_OneDetachedSendPerEvent ==
  [][/\ tts_events' # tts_events
          => /\ send_tasks' =
                  Append(send_tasks, [media_id |-> tts_events'[Len(tts_events')],
                                      st |-> "created", invoked_with |-> "none"])
             /\ UNCHANGED <<pipeline_task, pc, gen>>
     /\ tts_events' = tts_events => Len(send_tasks') <= Len(send_tasks)
     /\ pipeline_task' # pipeline_task => send_tasks' = send_tasks]_vars

\* the cycle that received the event has ended and the next chunk has started
\* a new cycle, while the send task of the event is still in flight
C12_Witness ==
  /\ send_tasks # <<>>
  /\ pipeline_task # None
  /\ pc \in {"start", "wait_get"}
  /\ cycle_first >= 1
  /\ outcome = "None"

\* C13: the not-configured protocol keeps at most one announcement task
\* scheduled, and a live task is the one its handle refers to.
C13_InvOneAnnouncement ==
  /\ nc_active \in {0, 1}
  /\ nc_active = 1 => nc_audio_task # None

\* C13, with the steps: a chunk that arrives while the handle is set spawns
\* nothing; the handle is cleared only by the task itself, after the message
\* was sent and the cooldown has then passed; a chunk handled with the handle
\* none spawns exactly one task.
C13_SingleAnnouncement ==
  /\ []C13_InvOneAnnouncement
  /\ [][/\ (nc_chunks' # nc_chunks /\ nc_audio_task # None)
             => /\ nc_spawned' = nc_spawned
                /\ nc_active' = nc_active
                /\ nc_audio_task' = nc_audio_task
        /\ (nc_audio_task # None /\ nc_audio_task' = None)
             => /\ nc_pc = "sleep"
                /\ nc_t = LOOP_DELAY
        /\ nc_pc' = "sleep" => nc_pc \in {"send", "sleep"}
        /\ (nc_chunks' # nc_chunks /\ nc_audio_task = None
               /\ nc_transport # None /\ nc_audio_bytes' # None)
             => /\ nc_spawned' = nc_spawned + 1
                /\ nc_active' = 1
                /\ nc_audio_task' # None]_vars

\* a chunk arrived while the first task was scheduled and spawned nothing; the
\* first chunk after its cooldown has spawned the second task
C13_Witness ==
  /\ nc_spawned = 2
  /\ nc_active = 1
  /\ nc_chunks = 3

\* C14: a send task never invokes the audio sender while the transport is
\* closed: every task that has handed send_audio to the executor did so with
\* the transport open, also when the transport was lost while the task was
\* suspended resolving the audio bytes.
C14_NoSendWhileClosed ==
  \A i \in 1..Len(send_tasks) :
    send_tasks[i].st = "sending" => send_tasks[i].invoked_with = "open"

\* the stream's inter-chunk timeout is about to end the audio sequence
StreamTimeoutDue == pc = "pipeline" /\ gen = "get" /\ AudioTimerDue

\* C15 (as stated): when the inter-chunk timeout expires during streaming the
\* audio sequence ends, the session id is cleared, a disconnect is requested,
\* the queue is cleared and the processing prompt is not played; the
\* processing prompt is played, when enabled, only after the sequence ended
\* because the segmenter reported the command finished, and while the
\* pipeline call is still in progress.
C15_ToneOnlyAfterCommandEnd ==
  [][/\ (StreamTimeoutDue /\ gen' # gen /\ sessions' = sessions)
          => /\ gen' \in {"done", "none"}
             /\ session_id' = None
             /\ disconnect_requested'
             /\ audio_queue' = <<>>
     /\ (gen # "ptone" /\ gen' = "ptone")
          => /\ processing_tone_enabled
             /\ pc' = "pipeline"
             /\ dequeued'[Len(dequeued')].kind = "end"
     /\ (pc = "pipeline" /\ Len(dequeued') > Len(dequeued)
          /\ dequeued'[Len(dequeued')].kind = "end")
          => gen' = IF processing_tone_enabled THEN "ptone" ELSE "done"]_vars

\* C15 (amended): as stated, but the processing prompt is played, when
\* enabled, after every end of the sequence that is not a timeout: the
\* segmenter reported the command finished, or an empty chunk was dequeued.
C15_ToneAfterStreamEnd ==
  [][/\ (StreamTimeoutDue /\ gen' # gen /\ sessions' = sessions)
          => /\ gen' \in {"done", "none"}
             /\ session_id' = None
             /\ disconnect_requested'
             /\ audio_queue' = <<>>
     /\ (gen # "ptone" /\ gen' = "ptone")
          => /\ processing_tone_enabled
             /\ pc' = "pipeline"
             /\ dequeued'[Len(dequeued')].kind \in {"end", "empty"}
     /\ (pc = "pipeline" /\ Len(dequeued') > Len(dequeued)
          /\ dequeued'[Len(dequeued')].kind \in {"end", "empty"})
          => gen' = IF processing_tone_enabled THEN "ptone" ELSE "done"]_vars

\* the processing prompt is enabled, the sequence has ended by the timeout
\* after a streamed chunk, and the prompt was skipped
C15_Witness ==
  /\ pc = "pipeline"
  /\ gen = "done"
  /\ processing_tone_enabled
  /\ session_id = None
  /\ disconnect_requested
  /\ streamed # <<>>
  /\ dequeued[Len(dequeued)].kind \in {"quiet", "speech"}

\* C16: the listening prompt is gated by the session id: a cycle assigns a
\* session id and plays the prompt (when enabled) exactly when the session id
\* is unset at its start; the session id is cleared only by a timeout, so
\* cycles that end without one play no further prompt, and every exit by a
\* timeout clears it, so the next cycle plays the prompt again.
C16_ListeningToneGatedBySession ==
  [][/\ (pc = "start" /\ pc' # "start" /\ sessions' = sessions)
          => IF session_id = None
               THEN /\ session_id' # None
                    /\ pc' = IF listening_tone_enabled THEN "tone" ELSE "wait_get"
               ELSE /\ session_id' = session_id
                    /\ pc' = "wait_get"
     /\ (pc # "tone" /\ pc' = "tone") => (pc = "start" /\ session_id = None)
     /\ (session_id # None /\ session_id' = None /\ sessions' = sessions)
          => /\ AudioTimerDue \/ DeadlineDue
             /\ disconnect_requested'
     /\ (outcome' # outcome /\ outcome' \in {"WaitTimeout", "DeadlineExpired"})
          => session_id' = None]_vars

\* a later cycle of the same call plays the listening prompt again, after a
\* cycle that ended by a timeout
C16_Witness ==
  /\ pc = "tone"
  /\ sessions = 1
  /\ cycle_first >= 1
  /\ disconnect_requested
  /\ session_id # None

\* the last n elements of a sequence, all of it when it is shorter
LastN(seq, n) ==
  IF Len(seq) <= n THEN seq ELSE SubSeq(seq, Len(seq) - n + 1, Len(seq))

\* the chunks a cycle dequeued before the one on which the command started
PreSpeech(d) ==
  LET starts == {i \in 1..Len(d) : d[i].kind = "speech"}
  IN IF starts = {} THEN d
     ELSE SubSeq(d, 1, (CHOOSE i \in starts : \A j \in starts : i <= j) - 1)

\* C17: the lookback buffer never holds more than 100 chunks, and while the
\* cycle waits for speech or streams it holds the most recent (at most 100)
\* pre-speech chunks the cycle dequeued, in arrival order.
C17_InvLookback ==
  /\ Len(chunk_buffer) <= 100
  /\ pc \in {"wait_get", "pipeline"}
       => chunk_buffer = LastN(PreSpeech(dequeued), 100)

\* C17, with the start of a cycle: it enters the wait for speech with an
\* empty buffer and a segmenter that is not in a command.
C17_LookbackBounded ==
  /\ []C17_InvLookback
  /\ [][(pc # "wait_get" /\ pc' = "wait_get")
          => (chunk_buffer' = <<>> /\ in_command' = FALSE)]_vars

\* more than 100 pre-speech chunks were dequeued before the command started:
\* the buffer holds the last 100 of them
C17_Witness ==
  /\ pc = "pipeline"
  /\ Len(chunk_buffer) = 100
  /\ Len(PreSpeech(dequeued)) > 100
  /\ chunk_buffer[1].id = Len(PreSpeech(dequeued)) - 100
  /\ chunk_buffer[100].id = Len(PreSpeech(dequeued)) - 1

\* C18: cancelling the cycle task from outside while it is suspended - in the
\* listening prompt, in the wait for a chunk, in streaming or in the pipeline
\* call - ends the cycle with the task handle none, so that a later chunk
\* starts a new cycle, and requests no disconnect.
C18_CancelReleasesHandle ==
  [][(/\ pc \in {"tone", "wait_get", "pipeline"}
      /\ outcome # "Cancelled"
      /\ outcome' = "Cancelled")
       => /\ pipeline_task' = None
          /\ pc' = "idle"
          /\ disconnect_requested' = disconnect_requested]_vars

\* C19 (as stated): when the deadline expires while the pipeline is still
\* executing after the audio sequence has ended, the cycle ends as for a
\* silence timeout: the session id is cleared, a disconnect is requested, the
\* chunk queue is cleared and the task handle is none again.
C19_DeadlineClearsQueue ==
  [][(/\ pc = "pipeline"
      /\ gen = "done"
      /\ outcome' # outcome
      /\ outcome' = "DeadlineExpired")
       => /\ session_id' = None
          /\ disconnect_requested'
          /\ audio_queue' = <<>>
          /\ pipeline_task' = None]_vars

\* C19 (amended): when the deadline expires while the pipeline is still
\* executing after the audio sequence has ended, the session id is cleared, a
\* disconnect is requested and the task handle is none again (the chunks that
\* arrived after the sequence ended stay in the queue).
C19_DeadlineHangsUp ==
  [][(/\ pc = "pipeline"
      /\ gen = "done"
      /\ outcome' # outcome
      /\ outcome' = "DeadlineExpired")
       => /\ session_id' = None
          /\ disconnect_requested'
          /\ pipeline_task' = None
          /\ pc' = "idle"
          /\ active' = 0]_vars

\* the deadline has expired after the command had ended, with a chunk that
\* arrived after the end of the sequence still queued
C19_Witness ==
  /\ outcome = "DeadlineExpired"
  /\ pipeline_task = None
  /\ session_id = None
  /\ disconnect_requested
  /\ audio_queue # <<>>
  /\ dequeued # <<>>
  /\ dequeued[Len(dequeued)].kind = "end"

\* C20 (as stated): within a cycle every chunk is dequeued at most once and
\* in arrival order, the segmenter processes each dequeued chunk exactly once
\* (a replayed pre-speech chunk is not fed to it again), and no chunk appears
\* twice in the streamed sequence.
C20_EachDequeuedProcessedOnce ==
  /\ \A i, j \in 1..Len(dequeued) : i < j => dequeued[i].id < dequeued[j].id
  /\ processed = dequeued
  /\ \A i, j \in 1..Len(streamed) : i < j => streamed[i].id # streamed[j].id

\* C20 (amended): as stated, for the non-empty chunks: the segmenter
\* processes each dequeued non-empty chunk exactly once, in arrival order; an
\* empty chunk is the last one the cycle dequeues and is not processed.
C20_NonEmptyProcessedOnce ==
  /\ \A i, j \in 1..Len(dequeued) : i < j => dequeued[i].id < dequeued[j].id
  /\ processed = SelectSeq(dequeued, Truthy)
  /\ \A i \in 1..Len(dequeued) : i < Len(dequeued) => Truthy(dequeued[i])
  /\ \A i, j \in 1..Len(streamed) : i < j => streamed[i].id # streamed[j].id

\* a buffered chunk was replayed and a chunk dequeued after it was streamed:
\* three chunks dequeued, each processed once
C20_Witness ==
  /\ pc = "pipeline"
  /\ Len(chunk_buffer) >= 1
  /\ replay_idx > Len(chunk_buffer)
  /\ Len(dequeued) >= 3
  /\ Len(processed) = Len(dequeued)
  /\ Len(streamed) >= 2

====
